---- MODULE Spec2Model ----
(***************************************************************************)
(* Model of certbot_dns_dreamhost/cert/client.py: the Authenticator that   *)
(* answers a DNS-01 challenge by creating a TXT record through the         *)
(* Dreamhost API (_perform) and removing it afterwards (_cleanup).         *)
(*                                                                         *)
(* Text is modelled as a sequence of tokens.  The tokens "." and "*" are   *)
(* single characters; every other token is a run of characters holding     *)
(* neither of them, so str.replace, str.split and str.join act on tokens   *)
(* exactly as they act on the characters of the string.                    *)
(***************************************************************************)
EXTENDS Integers, Sequences, FiniteSets, TLC

\* ------------------------------------------------------------------------
\* Program constants
\* ------------------------------------------------------------------------

DEFAULT_PROPAGATION_SECONDS == 600

ACME_TXT_PREFIX == <<"_acme-challenge">>

\* ------------------------------------------------------------------------
\* Bounds of the model
\* ------------------------------------------------------------------------

\* number of _perform/_cleanup invocations followed in one behaviour
MaxOps == 2

\* what add_record hands back for a created record
RecordIds == {"r1", "r2"}

\* threads of the host, each running one Authenticator call at a time; they
\* are numbered in the order of their first call
Procs == {1, 2}

\* validation values (the TXT values of the challenges)
Values == {<<"tokenABC">>, <<"tokenXYZ">>}

\* The host makes the calls for one validation value one after the other:
\* each value is driven by one thread.  Either one thread drives them all,
\* or each thread drives its own.
Owners ==
    { [v \in Values |-> 1],
      [v \in Values |-> IF v = <<"tokenABC">> THEN 1 ELSE 2] }

\* configured propagation waits (self.conf("propagation_seconds"))
PropagationChoices ==
    {DEFAULT_PROPAGATION_SECONDS - 1, DEFAULT_PROPAGATION_SECONDS}

\* Authenticator objects of one process, numbered in the order they are made
Instances == {1, 2}

\* values of the key option (self.conf("key")); "" stands for not given
KeyOptions == {"", "key-option"}

\* the key that the credentials INI file holds
FileKey == "key-of-file"

\* the credentials file is there and readable, or it is not
CredentialsFiles == {"present", "absent"}

\* the configuration the Authenticators of the process are made with
Confs == [key : KeyOptions, credentials : CredentialsFiles]

\* domains the host asks certificates for
Domains ==
    { <<"www", ".", "example", ".", "co", ".", "uk">>,
      <<"example", ".", "com">>,
      <<"*", ".", "example", ".", "com">>,
      <<"co", ".", "uk">> }

\* ------------------------------------------------------------------------
\* Text helpers (Python str operations used by the code)
\* ------------------------------------------------------------------------

\* s.replace(ch, ""): every occurrence of the character is removed
RemoveAll(s, ch) == SelectSeq(s, LAMBDA t : t # ch)

\* position of the first ch in s, or 0
RECURSIVE IndexOf(_, _, _)
IndexOf(s, ch, i) ==
    IF i > Len(s) THEN 0
    ELSE IF s[i] = ch THEN i
    ELSE IndexOf(s, ch, i + 1)

\* s.split("."): the labels between the dots, empty labels kept
RECURSIVE SplitDots(_)
SplitDots(s) ==
    LET i == IndexOf(s, ".", 1)
    IN  IF i = 0 THEN <<s>>
        ELSE <<SubSeq(s, 1, i - 1)>> \o SplitDots(SubSeq(s, i + 1, Len(s)))

\* ".".join(labels)
RECURSIVE JoinDots(_)
JoinDots(labels) ==
    IF Len(labels) = 0 THEN <<>>
    ELSE IF Len(labels) = 1 THEN labels[1]
    ELSE labels[1] \o <<".">> \o JoinDots(Tail(labels))

\* s.rstrip("."): trailing dots removed
RECURSIVE RStripDots(_)
RStripDots(s) ==
    IF Len(s) > 0 /\ s[Len(s)] = "."
    THEN RStripDots(SubSeq(s, 1, Len(s) - 1))
    ELSE s

\* f"{a}.{b}"
Dotted(a, b) == a \o <<".">> \o b

IsSuffix(t, s) ==
    /\ Len(t) <= Len(s)
    /\ SubSeq(s, Len(s) - Len(t) + 1, Len(s)) = t

\* ------------------------------------------------------------------------
\* DNS: dns.resolver.canonical_name and dns.name.Name
\* ------------------------------------------------------------------------

\* a dns.name.Name is its sequence of labels
NoName == <<>>

\* the CNAME/DNAME records published under each state of the DNS; a lookup
\* sees the state the DNS is in when it is made
CnameTarget(table, name) ==
    IF table = "delegated"
    THEN IF name = <<ACME_TXT_PREFIX, <<"www">>, <<"example">>, <<"co">>, <<"uk">>>>
         THEN <<<<"www">>, <<"acme">>, <<"example">>, <<"org">>>>
         ELSE IF name = <<ACME_TXT_PREFIX, <<"example">>, <<"com">>>>
         THEN <<<<"alias">>, <<"example">>, <<"org">>>>
         ELSE IF name = <<<<"alias">>, <<"example">>, <<"org">>>>
         THEN <<<<"example">>, <<"org">>>>
         ELSE NoName
    ELSE NoName

DnsTables == {"plain", "delegated"}

\* follow all CNAME and DNAME records up to a name that has none
RECURSIVE Chase(_, _)
Chase(table, name) ==
    IF CnameTarget(table, name) = NoName THEN name
    ELSE Chase(table, CnameTarget(table, name))

\* dns.name.from_text: the labels of the text; the root label of an
\* absolute name is dropped
NameLabels(text) ==
    LET labels == SplitDots(text)
    IN  IF Len(labels) > 1 /\ labels[Len(labels)] = <<>>
        THEN SubSeq(labels, 1, Len(labels) - 1)
        ELSE labels

\* dns.name.from_text raises EmptyLabel for a name with an empty label
HasEmptyLabel(text) ==
    \E i \in 1..Len(NameLabels(text)) : NameLabels(text)[i] = <<>>

\* Name.to_text() of the absolute name the resolver returns
NameToText(name) == JoinDots(name) \o <<".">>

\* what one lookup can do besides answering
LookupFaults == {"none", "NoAnswer", "NXDOMAIN", "Timeout"}

\* ------------------------------------------------------------------------
\* tldextract.extract: the public-suffix split
\* ------------------------------------------------------------------------

PublicSuffixes ==
    { <<<<"com">>>>, <<<<"org">>>>, <<<<"uk">>>>, <<<<"co">>, <<"uk">>>> }

\* first position from which the labels form a public suffix (the longest
\* one); one past the end when none does
SuffixIndex(labels) ==
    LET hits == {i \in 1..Len(labels) :
                    SubSeq(labels, i, Len(labels)) \in PublicSuffixes}
    IN  IF hits = {} THEN Len(labels) + 1
        ELSE CHOOSE i \in hits : \A j \in hits : i <= j

Extract(text) ==
    LET labels == SplitDots(RStripDots(text))
        i      == SuffixIndex(labels)
    IN  [ subdomain |-> IF i >= 3 THEN JoinDots(SubSeq(labels, 1, i - 2))
                        ELSE <<>>,
          domain    |-> IF i >= 2 THEN labels[i - 1] ELSE <<>>,
          suffix    |-> JoinDots(SubSeq(labels, i, Len(labels))) ]

\* ------------------------------------------------------------------------
\* Exceptions
\* ------------------------------------------------------------------------

NoExc == [cls |-> "", cause |-> "", msg |-> <<>>]

Exc(cls, msg) == [cls |-> cls, cause |-> "", msg |-> msg]

\* errors.PluginError(e): str() of it is str(e)
PluginErrorFrom(e) == [cls |-> "PluginError", cause |-> e.cls, msg |-> e.msg]

\* ------------------------------------------------------------------------
\* Pieces of Authenticator._perform and Authenticator._cleanup
\* ------------------------------------------------------------------------

\* record_ids_to_root_domain = dict() in the class body: no entries
EmptyMap == [v \in {} |-> <<"", <<>>>>]

\* variant: __init__ binds a dict of its own to the new object
InitAttributesOwnMap == {"credentials", "record_ids_to_root_domain"}

\* the attributes __init__ binds on the new object (self.credentials = None)
InitAttributes == {"credentials"}

\* an Authenticator that is not made yet
Unmade ==
    [made |-> FALSE, attributes |-> {}, own_map |-> EmptyMap,
     credentials |-> "", setup |-> "no", file_read |-> FALSE,
     born_with |-> {}]

\* the object as __init__ leaves it: credentials None (""), and the keys of
\* the class-level dict at that time kept for reference
Constructed(map) ==
    [Unmade EXCEPT !.made = TRUE, !.attributes = InitAttributes,
                   !.born_with = DOMAIN map]

\* variant: the credentials file is read whether or not the key is given
AfterSetupCredentialsFromFile(conf, authenticator) ==
    IF conf.credentials = "present"
    THEN [authenticator EXCEPT !.setup = "done", !.credentials = FileKey,
                               !.file_read = TRUE]
    ELSE [authenticator EXCEPT !.setup = "raised"]

\* _setup_credentials: nothing to do when the key option is given;
\* otherwise the credentials file is asked for, checked and read, which
\* raises when it is not there
AfterSetupCredentials(conf, authenticator) ==
    IF conf.key # ""
    THEN [authenticator EXCEPT !.setup = "done"]
    ELSE IF conf.credentials = "present"
    THEN [authenticator EXCEPT !.setup = "done", !.credentials = FileKey,
                               !.file_read = TRUE]
    ELSE [authenticator EXCEPT !.setup = "raised"]

\* _get_dreamhost_client: the key the DreamHostAPI client is made with,
\* self.conf("key") or self.credentials.conf("key")
GetDreamhostClient(conf, authenticator) ==
    IF conf.key # "" THEN conf.key ELSE authenticator.credentials

\* variant: the warning is logged at the TTL minimum as well
WarnsPropagationAtMost(seconds) == seconds <= 600

\* the warning of _perform is logged below the Dreamhost TTL minimum
WarnsPropagation(seconds) == seconds < 600

\* domain.replace("*", "") and f"{ACME_TXT_PREFIX}.{domain}"
ChallengeDomain(domain) == Dotted(ACME_TXT_PREFIX, RemoveAll(domain, "*"))

\* variant: every failure of the lookup is caught and the queried name is
\* used in its place
CanonicalNameSwallowing(table, fault, domain) ==
    IF HasEmptyLabel(domain)
    THEN [exc |-> Exc("EmptyLabel", domain), isName |-> FALSE, text |-> <<>>]
    ELSE IF fault = "none"
    THEN [exc |-> NoExc, isName |-> TRUE,
          text |-> NameToText(Chase(table, NameLabels(domain)))]
    ELSE [exc |-> NoExc, isName |-> TRUE,
          text |-> NameToText(NameLabels(domain))]

\* resolver.canonical_name(domain) inside its try/except: the value bound to
\* canonical_name, a Name on an answer and the str domain on NoAnswer and
\* NXDOMAIN, or the exception that leaves _perform
CanonicalName(table, fault, domain) ==
    IF HasEmptyLabel(domain)
    THEN [exc |-> Exc("EmptyLabel", domain), isName |-> FALSE, text |-> <<>>]
    ELSE IF fault = "none"
    THEN [exc |-> NoExc, isName |-> TRUE,
          text |-> NameToText(Chase(table, NameLabels(domain)))]
    ELSE IF fault \in {"NoAnswer", "NXDOMAIN"}
    THEN [exc |-> NoExc, isName |-> FALSE, text |-> domain]
    ELSE [exc |-> Exc(fault, domain), isName |-> FALSE, text |-> <<>>]

\* canonical_name.to_text(): a str has no such method
ToTextFails(canonical) == ~canonical.isName

\* f"{extract_result.domain}.{extract_result.suffix}"
RootDomain(extract_result) ==
    Dotted(extract_result.domain, extract_result.suffix)

\* record=f"{name}.{root_domain}"
RecordName(name, root_domain) == Dotted(name, root_domain)

AddRecordCall(name, root_domain, validation) ==
    [op |-> "add_record", record |-> RecordName(name, root_domain),
     type |-> "TXT", value |-> validation]

\* variant: an entry already stored for the value is kept (dict.setdefault)
StoreRecordKeepFirst(map, validation, record_id, root_domain) ==
    [v \in (DOMAIN map) \cup {validation} |->
        IF v \in DOMAIN map THEN map[v] ELSE <<record_id, root_domain>>]

\* variant: the dict is rebound to one holding the new entry alone
StoreRecordAlone(map, validation, record_id, root_domain) ==
    [v \in {validation} |-> <<record_id, root_domain>>]

\* variant: the new tuple is stored under every key of the dict
StoreRecordEvery(map, validation, record_id, root_domain) ==
    [v \in (DOMAIN map) \cup {validation} |-> <<record_id, root_domain>>]

\* self.record_ids_to_root_domain[validation] = (<record id>, root_domain)
StoreRecord(map, validation, record_id, root_domain) ==
    [v \in (DOMAIN map) \cup {validation} |->
        IF v = validation THEN <<record_id, root_domain>> ELSE map[v]]

\* variant: the validation value is passed as the record
RemoveRecordCallByValue(root_domain, validation) ==
    [op |-> "remove_record", record |-> validation,
     type |-> "TXT", value |-> validation]

\* remove_record(record=root_domain, type="TXT", value=validation)
RemoveRecordCall(root_domain, validation) ==
    [op |-> "remove_record", record |-> root_domain,
     type |-> "TXT", value |-> validation]

\* variant: the message leaves the domain out
NotDeletedMessageBare(domain) == <<"TXT for domain ", " was not deleted">>

\* "TXT for domain {} was not deleted".format(domain)
NotDeletedMessage(domain) ==
    <<"TXT for domain ">> \o domain \o <<" was not deleted">>

\* what the provider's remove_record can do: a truthy or a falsy result, or
\* an exception; add_record returns a record id or raises
RemoveOutcomes == {"removed", "not_removed", "raises"}

\* variant: the provider's exception leaves _cleanup as it is
CleanupExceptionUnwrapped(outcome, domain) ==
    IF outcome = "removed" THEN NoExc
    ELSE IF outcome = "not_removed"
    THEN PluginErrorFrom(Exc("PluginError", NotDeletedMessage(domain)))
    ELSE Exc("DreamHostError", <<"remove_record failed">>)

\* the exception that leaves the try block of _cleanup, NoExc when none
CleanupException(outcome, domain) ==
    IF outcome = "removed" THEN NoExc
    ELSE IF outcome = "not_removed"
    THEN PluginErrorFrom(Exc("PluginError", NotDeletedMessage(domain)))
    ELSE PluginErrorFrom(Exc("DreamHostError", <<"remove_record failed">>))

\* except Exception as e: raise errors.PluginError(e) of _perform
PerformException == PluginErrorFrom(Exc("DreamHostError", <<"add_record failed">>))

\* ------------------------------------------------------------------------
\* State
\* ------------------------------------------------------------------------

VARIABLES
    record_ids_to_root_domain, \* class attribute: validation -> <<id, root>>
    pc,                        \* where each thread stands
    op,                        \* the call each thread runs or ran last
    prev,                      \* the _perform each thread's call follows
    last_started,              \* the thread that started the latest call
    owner,                     \* the thread that drives each validation value
    nops,                      \* calls started so far
    propagation_seconds,       \* self.conf("propagation_seconds")
    conf,                      \* the key and credentials options
    authenticators             \* the Authenticator objects

vars == <<record_ids_to_root_domain, pc, op, prev, last_started, owner,
          nops, propagation_seconds, conf, authenticators>>

NoOp ==
    [kind |-> "none", self |-> 0, key |-> "",
     domain |-> <<>>, validation |-> <<>>,
     alone |-> TRUE, follows |-> FALSE, warned |-> FALSE, challenge |-> <<>>,
     lookup |-> "unasked", canonical |-> <<>>,
     root_domain |-> <<>>, name |-> <<>>, record_id |-> "",
     issued |-> <<>>, outcome |-> "uncalled",
     result |-> "none", exc |-> NoExc]

InFlight(p) == pc[p] \notin {"ready", "returned"}

\* a call that starts while another runs overlaps it
Overlapped(p) ==
    [q \in Procs |->
        IF q # p /\ InFlight(q) THEN [op[q] EXCEPT !.alone = FALSE]
        ELSE op[q]]

\* the new call of p comes right after a _perform of p that no other call
\* overlapped or came after
Follows(p) ==
    /\ op[p].kind = "perform"
    /\ op[p].alone
    /\ last_started = p
    /\ \A q \in Procs \ {p} : ~InFlight(q)

Begin(p, a, kind, domain, validation) ==
    [NoOp EXCEPT !.kind = kind, !.self = a,
                 !.domain = domain, !.validation = validation,
                 !.alone = \A q \in Procs \ {p} : ~InFlight(q),
                 !.follows = Follows(p),
                 !.result = "pending"]

\* self.record_ids_to_root_domain: the dict bound on the object when it has
\* one, the dict of the class otherwise
TrackingMap(a) ==
    IF "record_ids_to_root_domain" \in authenticators[a].attributes
    THEN authenticators[a].own_map
    ELSE record_ids_to_root_domain

\* self.record_ids_to_root_domain[validation] = ...: the item is assigned in
\* the dict the attribute lookup finds
AssignEntry(a, validation, record_id, root_domain) ==
    IF "record_ids_to_root_domain" \in authenticators[a].attributes
    THEN /\ authenticators' =
               [authenticators EXCEPT ![a].own_map =
                   StoreRecord(@, validation, record_id, root_domain)]
         /\ UNCHANGED record_ids_to_root_domain
    ELSE /\ record_ids_to_root_domain' =
               StoreRecord(record_ids_to_root_domain, validation,
                           record_id, root_domain)
         /\ UNCHANGED authenticators

\* a thread makes its first call once the threads numbered below it have
CanStart(p) ==
    /\ ~InFlight(p)
    /\ nops < MaxOps
    /\ \A q \in Procs : q < p => pc[q] # "ready"

\* the _perform a new call of p comes right after, if there is one
Followed(p) == IF Follows(p) THEN op[p] ELSE NoOp

\* one Authenticator is made and set up from its credentials file; the dict
\* of the class is empty and no call has been made
Init ==
    /\ record_ids_to_root_domain = EmptyMap
    /\ pc = [p \in Procs |-> "ready"]
    /\ op = [p \in Procs |-> NoOp]
    /\ prev = [p \in Procs |-> NoOp]
    /\ last_started = 0
    /\ owner \in Owners
    /\ nops = 0
    /\ propagation_seconds \in PropagationChoices
    /\ conf = [key |-> "", credentials |-> "present"]
    /\ authenticators =
          [a \in Instances |->
              IF a = 1 THEN AfterSetupCredentials(conf, Constructed(EmptyMap))
              ELSE Unmade]

\* ------------------------------------------------------------------------
\* _perform
\* ------------------------------------------------------------------------

\* entry of _perform up to the lookup: the client, the warning, the
\* challenge domain.  Neither _perform nor _cleanup reads validation_name,
\* so it is not carried.
StartPerform(p, a, domain, validation) ==
    /\ CanStart(p)
    /\ owner[validation] = p
    /\ authenticators[a].setup = "done"
    /\ nops' = nops + 1
    /\ last_started' = p
    /\ prev' = [prev EXCEPT ![p] = Followed(p)]
    /\ op' = [Overlapped(p) EXCEPT ![p] =
                [Begin(p, a, "perform", domain, validation) EXCEPT
                    !.key = GetDreamhostClient(conf, authenticators[a]),
                    !.warned = WarnsPropagation(propagation_seconds),
                    !.challenge = ChallengeDomain(domain)]]
    /\ pc' = [pc EXCEPT ![p] = "resolve"]
    /\ UNCHANGED <<record_ids_to_root_domain, owner, propagation_seconds,
                   conf, authenticators>>

\* the lookup of the canonical name and the public-suffix split
PerformResolve(p, table, fault) ==
    /\ pc[p] = "resolve"
    /\ LET canonical == CanonicalName(table, fault, op[p].challenge)
           extract_result == Extract(canonical.text)
           asked == IF HasEmptyLabel(op[p].challenge) THEN "unasked" ELSE fault
       IN  IF canonical.exc # NoExc
           THEN /\ op' = [op EXCEPT ![p].lookup = asked,
                                    ![p].result = "raised",
                                    ![p].exc = canonical.exc]
                /\ pc' = [pc EXCEPT ![p] = "returned"]
           ELSE IF ToTextFails(canonical)
           THEN /\ op' = [op EXCEPT ![p].lookup = asked,
                                    ![p].canonical = canonical.text,
                                    ![p].result = "raised",
                                    ![p].exc = Exc("AttributeError", <<"to_text">>)]
                /\ pc' = [pc EXCEPT ![p] = "returned"]
           ELSE /\ op' = [op EXCEPT ![p].lookup = asked,
                                    ![p].canonical = canonical.text,
                                    ![p].root_domain = RootDomain(extract_result),
                                    ![p].name = extract_result.subdomain]
                /\ pc' = [pc EXCEPT ![p] = "add_record"]
    /\ UNCHANGED <<record_ids_to_root_domain, prev, last_started, owner,
                   nops, propagation_seconds, conf, authenticators>>

\* variant: a tuple without record id is stored before add_record is called
PerformAddRecordStoreFirst(p, outcome) ==
    /\ pc[p] = "add_record"
    /\ LET call == AddRecordCall(op[p].name, op[p].root_domain,
                                 op[p].validation)
       IN  IF outcome = "raises"
           THEN /\ op' = [op EXCEPT ![p].issued = Append(@, call),
                                    ![p].outcome = "raises",
                                    ![p].result = "raised",
                                    ![p].exc = PerformException]
                /\ AssignEntry(op[p].self, op[p].validation,
                               "", op[p].root_domain)
           ELSE /\ op' = [op EXCEPT ![p].issued = Append(@, call),
                                    ![p].outcome = "returns",
                                    ![p].record_id = outcome,
                                    ![p].result = "ok"]
                /\ AssignEntry(op[p].self, op[p].validation,
                               outcome, op[p].root_domain)
    /\ pc' = [pc EXCEPT ![p] = "returned"]
    /\ UNCHANGED <<prev, last_started, owner, nops, propagation_seconds,
                   conf>>

\* client.dns.add_record(...) returns a record id or raises; on a return
\* the tuple is assigned to the class-level dict and _perform returns.
\* Between the return of add_record and the assignment the thread reads and
\* writes nothing shared, and the item assignment is one step of the
\* interpreter, so the two are taken together.
PerformAddRecord(p, outcome) ==
    /\ pc[p] = "add_record"
    /\ LET call == AddRecordCall(op[p].name, op[p].root_domain,
                                 op[p].validation)
       IN  IF outcome = "raises"
           THEN /\ op' = [op EXCEPT ![p].issued = Append(@, call),
                                    ![p].outcome = "raises",
                                    ![p].result = "raised",
                                    ![p].exc = PerformException]
                /\ UNCHANGED <<record_ids_to_root_domain, authenticators>>
           ELSE /\ op' = [op EXCEPT ![p].issued = Append(@, call),
                                    ![p].outcome = "returns",
                                    ![p].record_id = outcome,
                                    ![p].result = "ok"]
                /\ AssignEntry(op[p].self, op[p].validation,
                               outcome, op[p].root_domain)
    /\ pc' = [pc EXCEPT ![p] = "returned"]
    /\ UNCHANGED <<prev, last_started, owner, nops, propagation_seconds,
                   conf>>

\* ------------------------------------------------------------------------
\* _cleanup
\* ------------------------------------------------------------------------

\* variant: _cleanup takes the root domain from its domain argument
StartCleanupOfDomain(p, a, domain, validation) ==
    /\ CanStart(p)
    /\ owner[validation] = p
    /\ authenticators[a].setup = "done"
    /\ nops' = nops + 1
    /\ last_started' = p
    /\ prev' = [prev EXCEPT ![p] = Followed(p)]
    /\ IF validation \in DOMAIN TrackingMap(a)
       THEN /\ op' = [Overlapped(p) EXCEPT ![p] =
                        [Begin(p, a, "cleanup", domain, validation) EXCEPT
                            !.record_id = TrackingMap(a)[validation][1],
                            !.root_domain = RootDomain(Extract(domain))]]
            /\ pc' = [pc EXCEPT ![p] = "remove_record"]
       ELSE /\ op' = [Overlapped(p) EXCEPT ![p] =
                        [Begin(p, a, "cleanup", domain, validation) EXCEPT
                            !.result = "raised",
                            !.exc = Exc("KeyError", validation)]]
            /\ pc' = [pc EXCEPT ![p] = "returned"]
    /\ UNCHANGED <<record_ids_to_root_domain, owner, propagation_seconds,
                   conf, authenticators>>

\* the two reads of the dict.  The record id is not used afterwards and no
\* code removes a key, so the reads are taken together.
StartCleanup(p, a, domain, validation) ==
    /\ CanStart(p)
    /\ owner[validation] = p
    /\ authenticators[a].setup = "done"
    /\ nops' = nops + 1
    /\ last_started' = p
    /\ prev' = [prev EXCEPT ![p] = Followed(p)]
    /\ IF validation \in DOMAIN TrackingMap(a)
       THEN /\ op' = [Overlapped(p) EXCEPT ![p] =
                        [Begin(p, a, "cleanup", domain, validation) EXCEPT
                            !.record_id = TrackingMap(a)[validation][1],
                            !.root_domain = TrackingMap(a)[validation][2]]]
            /\ pc' = [pc EXCEPT ![p] = "remove_record"]
       ELSE /\ op' = [Overlapped(p) EXCEPT ![p] =
                        [Begin(p, a, "cleanup", domain, validation) EXCEPT
                            !.result = "raised",
                            !.exc = Exc("KeyError", validation)]]
            /\ pc' = [pc EXCEPT ![p] = "returned"]
    /\ UNCHANGED <<record_ids_to_root_domain, owner, propagation_seconds,
                   conf, authenticators>>

\* remove_record(...) and the end of _cleanup
CleanupRemoveRecord(p, outcome) ==
    /\ pc[p] = "remove_record"
    /\ LET call == RemoveRecordCall(op[p].root_domain, op[p].validation)
           e == CleanupException(outcome, op[p].domain)
       IN  op' = [op EXCEPT ![p].key = GetDreamhostClient(
                                           conf, authenticators[op[p].self]),
                            ![p].issued = Append(@, call),
                            ![p].outcome = outcome,
                            ![p].result = IF e = NoExc THEN "ok" ELSE "raised",
                            ![p].exc = e]
    /\ pc' = [pc EXCEPT ![p] = "returned"]
    /\ UNCHANGED <<record_ids_to_root_domain, prev, last_started, owner,
                   nops, propagation_seconds, conf, authenticators>>

Next ==
    \/ \E p \in Procs, a \in Instances, d \in Domains, v \in Values :
          StartPerform(p, a, d, v)
    \/ \E p \in Procs, t \in DnsTables, f \in LookupFaults :
          PerformResolve(p, t, f)
    \/ \E p \in Procs, r \in RecordIds \cup {"raises"} : PerformAddRecord(p, r)
    \/ \E p \in Procs, a \in Instances, d \in Domains, v \in Values :
          StartCleanup(p, a, d, v)
    \/ \E p \in Procs, o \in RemoveOutcomes : CleanupRemoveRecord(p, o)

Spec == Init /\ [][Next]_vars

\* ------------------------------------------------------------------------
\* Several Authenticator objects in one process, made and set up over time
\* ------------------------------------------------------------------------

\* Authenticator(...): __init__ binds credentials on the new object and
\* leaves the class alone
Construct(a) ==
    /\ ~authenticators[a].made
    /\ \A b \in Instances : b < a => authenticators[b].made
    /\ authenticators' =
          [authenticators EXCEPT ![a] = Constructed(record_ids_to_root_domain)]
    /\ UNCHANGED <<record_ids_to_root_domain, pc, op, prev, last_started,
                   owner, nops, propagation_seconds, conf>>

\* the host calls _setup_credentials on an object before its first _perform
SetupCredentials(a) ==
    /\ authenticators[a].made
    /\ authenticators[a].setup = "no"
    /\ authenticators' =
          [authenticators EXCEPT ![a] = AfterSetupCredentials(conf, @)]
    /\ UNCHANGED <<record_ids_to_root_domain, pc, op, prev, last_started,
                   owner, nops, propagation_seconds, conf>>

\* the process before any Authenticator is made; one thread makes the calls
InitInstances ==
    /\ record_ids_to_root_domain = EmptyMap
    /\ pc = [p \in Procs |-> "ready"]
    /\ op = [p \in Procs |-> NoOp]
    /\ prev = [p \in Procs |-> NoOp]
    /\ last_started = 0
    /\ owner = [v \in Values |-> 1]
    /\ nops = 0
    /\ propagation_seconds = DEFAULT_PROPAGATION_SECONDS
    /\ conf \in Confs
    /\ authenticators = [a \in Instances |-> Unmade]

\* the calls of this part are all for one domain
InstanceDomains == {<<"example", ".", "com">>}

NextInstances ==
    \/ \E a \in Instances : Construct(a)
    \/ \E a \in Instances : SetupCredentials(a)
    \/ \E p \in Procs, a \in Instances, d \in InstanceDomains,
          v \in Values : StartPerform(p, a, d, v)
    \/ \E p \in Procs, t \in DnsTables, f \in LookupFaults :
          PerformResolve(p, t, f)
    \/ \E p \in Procs, r \in RecordIds \cup {"raises"} : PerformAddRecord(p, r)
    \/ \E p \in Procs, a \in Instances, d \in InstanceDomains,
          v \in Values : StartCleanup(p, a, d, v)
    \/ \E p \in Procs, o \in RemoveOutcomes : CleanupRemoveRecord(p, o)

SpecInstances == InitInstances /\ [][NextInstances]_vars

TypeOK ==
    /\ nops \in 0..MaxOps
    /\ DOMAIN record_ids_to_root_domain \subseteq Values
    /\ \A p \in Procs : op[p].kind \in {"none", "perform", "cleanup"}
    /\ conf \in Confs
    /\ \A a \in Instances :
          /\ authenticators[a].setup \in {"no", "done", "raised"}
          /\ authenticators[a].attributes \subseteq InitAttributes
          /\ authenticators[a].setup # "no" => authenticators[a].made

\* ------------------------------------------------------------------------
\* Properties
\* ------------------------------------------------------------------------

Returned(p, kind) == pc[p] = "returned" /\ op[p].kind = kind

\* t occurs in s as a run of tokens
Names(s, t) ==
    \E i \in 1..Len(s) : i + Len(t) - 1 <= Len(s) /\ SubSeq(s, i, i + Len(t) - 1) = t

\* a _cleanup of p has returned that came right after a _perform of p with
\* the same arguments, no other call in between or alongside
PerformThenCleanup(p) ==
    /\ Returned(p, "cleanup")
    /\ op[p].follows
    /\ op[p].alone
    /\ prev[p].kind = "perform"
    /\ prev[p].domain = op[p].domain
    /\ prev[p].validation = op[p].validation

\* the two calls issued one add_record and then one remove_record, and the
\* remove_record names the zone the added record lies in
OneCreateThenOneDelete(p) ==
    /\ Len(prev[p].issued) = 1
    /\ prev[p].issued[1].op = "add_record"
    /\ Len(op[p].issued) = 1
    /\ op[p].issued[1].op = "remove_record"
    /\ op[p].issued[1].value = prev[p].issued[1].value
    /\ op[p].issued[1].record = prev[p].root_domain
    /\ IsSuffix(<<".">> \o op[p].issued[1].record, prev[p].issued[1].record)

C2_UntrackedCleanupIsPluginError ==
    \A p \in Procs :
        Returned(p, "cleanup")
        /\ op[p].validation \notin DOMAIN record_ids_to_root_domain
            => /\ op[p].result = "raised"
               /\ op[p].exc.cls = "PluginError"
               /\ op[p].issued = <<>>

\* C3: once a _cleanup for a tracked record has returned, whatever the
\* provider's delete did, the tracking map holds no entry for its value.
C3_CleanupRemovesEntry ==
    \A p \in Procs :
        Returned(p, "cleanup") /\ op[p].outcome # "uncalled"
            => op[p].validation \notin DOMAIN record_ids_to_root_domain

IsWildcard(domain) == Len(domain) > 2 /\ domain[1] = "*" /\ domain[2] = "."

\* C4: a _perform on "*." + d uses the challenge name "_acme-challenge." + d,
\* which has no "*" label and no empty label, as a _perform on d does.
C4_WildcardStripped ==
    \A p \in Procs :
        op[p].kind = "perform" /\ IsWildcard(op[p].domain)
            => /\ op[p].challenge =
                     Dotted(ACME_TXT_PREFIX, SubSeq(op[p].domain, 3, Len(op[p].domain)))
               /\ ~HasEmptyLabel(op[p].challenge)

\* C5: when the lookup reports NXDOMAIN or NoAnswer, _perform raises no
\* error for it: it goes on with the queried name to the create call.
C5_MissingNameFallsBack ==
    \A p \in Procs :
        op[p].kind = "perform" /\ op[p].lookup \in {"NoAnswer", "NXDOMAIN"}
            => /\ op[p].canonical = op[p].challenge
               /\ pc[p] = "add_record" \/ op[p].issued # <<>>

\* the lookup of p's _perform answered, and with the queried name itself
NoIndirection(p) ==
    /\ op[p].kind = "perform"
    /\ op[p].lookup = "none"
    /\ op[p].canonical = op[p].challenge \o <<".">>

\* C6: for a domain with no wildcard and no redirection, relative name and
\* zone join with a dot to the challenge name "_acme-challenge." + d, and
\* that is the record name of the create call.
C6_IdentityReconstruction ==
    \A p \in Procs :
        NoIndirection(p) /\ ~Names(op[p].domain, <<"*">>)
            => /\ Dotted(op[p].name, op[p].root_domain)
                     = Dotted(ACME_TXT_PREFIX, op[p].domain)
               /\ op[p].issued # <<>>
                     => op[p].issued[1].record = Dotted(ACME_TXT_PREFIX, op[p].domain)

\* C7: a call issues at most one provider call, a create for _perform and a
\* delete for _cleanup, and when the provider raises the call ends in a
\* PluginError made from the provider's exception.
C7_ProviderFailureWrappedNoRetry ==
    \A p \in Procs :
        /\ Len(op[p].issued) <= 1
        /\ \A i \in 1..Len(op[p].issued) :
              op[p].issued[i].op =
                 IF op[p].kind = "perform" THEN "add_record" ELSE "remove_record"
        /\ op[p].outcome = "raises"
              => /\ pc[p] = "returned"
                 /\ op[p].result = "raised"
                 /\ op[p].exc.cls = "PluginError"
                 /\ op[p].exc.cause = "DreamHostError"

C7_Witness ==
    \E p \in Procs :
        /\ Returned(p, "cleanup")
        /\ op[p].outcome = "raises"
        /\ prev[p].kind = "perform"

\* C8: when remove_record returns a falsy result, _cleanup ends in a
\* PluginError whose message names the domain passed to _cleanup.
C8_NotRemovedIsError ==
    \A p \in Procs :
        Returned(p, "cleanup") /\ op[p].outcome = "not_removed"
            => /\ op[p].result = "raised"
               /\ op[p].exc.cls = "PluginError"
               /\ Names(op[p].exc.msg, op[p].domain)

C8_Witness ==
    \E p \in Procs : Returned(p, "cleanup") /\ op[p].outcome = "not_removed"

\* C9: after a _perform for value v has returned normally the tracking map
\* holds for v the record id that add_record returned and the root domain
\* of the created record, also when an earlier _perform had stored another
\* entry for v; the map has keys among the validation values only, one
\* entry each.
C9_EntryStoredAndOverwritten ==
    /\ DOMAIN record_ids_to_root_domain \subseteq Values
    /\ \A p \in Procs :
          Returned(p, "perform") /\ op[p].result = "ok"
              => /\ op[p].validation \in DOMAIN record_ids_to_root_domain
                 /\ record_ids_to_root_domain[op[p].validation]
                       = <<op[p].record_id, op[p].root_domain>>
                 /\ op[p].outcome = "returns"
                 /\ IsSuffix(<<".">> \o op[p].root_domain, op[p].issued[1].record)

\* a second _perform for the same value has replaced the first one's entry
C9_Witness ==
    \E p \in Procs :
        /\ Returned(p, "perform") /\ op[p].result = "ok"
        /\ prev[p].kind = "perform" /\ prev[p].result = "ok"
        /\ prev[p].validation = op[p].validation
        /\ prev[p].record_id # op[p].record_id
        /\ prev[p].root_domain # op[p].root_domain

\* C10: when two _perform calls of different threads, for different domains
\* and different validation values, have both returned normally, the map
\* holds both entries, each with its own record id and root domain.
C10_ConcurrentPerformsKeepBoth ==
    \A p, q \in Procs :
        /\ p # q
        /\ Returned(p, "perform") /\ op[p].result = "ok"
        /\ Returned(q, "perform") /\ op[q].result = "ok"
        /\ op[p].validation # op[q].validation
        => /\ {op[p].validation, op[q].validation}
                 \subseteq DOMAIN record_ids_to_root_domain
           /\ record_ids_to_root_domain[op[p].validation]
                 = <<op[p].record_id, op[p].root_domain>>
           /\ record_ids_to_root_domain[op[q].validation]
                 = <<op[q].record_id, op[q].root_domain>>

\* two overlapping _perform calls for different domains have both returned
C10_Witness ==
    \E p, q \in Procs :
        /\ p # q
        /\ Returned(p, "perform") /\ op[p].result = "ok" /\ ~op[p].alone
        /\ Returned(q, "perform") /\ op[q].result = "ok" /\ ~op[q].alone
        /\ op[p].domain # op[q].domain
        /\ op[p].root_domain # op[q].root_domain
        /\ op[p].record_id # op[q].record_id

\* C11: the warning of _perform is logged exactly when the configured
\* propagation time is below 600 seconds, and with or without the warning
\* the call goes on: it builds the challenge domain, asks the resolver
\* (unless the name is malformed) and, on an answer, issues the create call
\* for the name and root domain it derived, ending as the provider decides.
C11_WarningIsAdvisory ==
    \A p \in Procs :
        op[p].kind = "perform"
            => /\ op[p].warned = (propagation_seconds < 600)
               /\ op[p].challenge = ChallengeDomain(op[p].domain)
               /\ pc[p] \in {"resolve", "add_record", "returned"}
               /\ pc[p] # "resolve"
                     => op[p].lookup # "unasked" \/ op[p].exc.cls = "EmptyLabel"
               /\ pc[p] = "returned" /\ op[p].lookup = "none"
                     => /\ op[p].issued
                             = <<AddRecordCall(op[p].name, op[p].root_domain,
                                               op[p].validation)>>
                        /\ op[p].result
                             = IF op[p].outcome = "returns" THEN "ok" ELSE "raised"

\* a _perform that logged the warning has created its record and returned
C11_Witness ==
    \E p \in Procs :
        /\ Returned(p, "perform")
        /\ propagation_seconds < DEFAULT_PROPAGATION_SECONDS
        /\ op[p].warned
        /\ op[p].result = "ok"
        /\ Len(op[p].issued) = 1

\* a step of thread p inside _perform before the create call: the entry of
\* the call or the lookup
BeforeAddRecord(p) ==
    /\ pc'[p] # pc[p]
    /\ pc'[p] = "resolve" \/ pc[p] = "resolve"

\* C12: when the lookup of the canonical name fails with an error other
\* than NoAnswer and NXDOMAIN (here a timeout), _perform ends at once with
\* that error, no provider call is issued, and no step of the call up to
\* there changes the tracking map.
C12_OtherLookupFailurePropagates ==
    /\ [](\A p \in Procs :
            op[p].kind = "perform" /\ op[p].lookup = "Timeout"
                => /\ pc[p] = "returned"
                   /\ op[p].result = "raised"
                   /\ op[p].exc.cls = "Timeout"
                   /\ op[p].issued = <<>>
                   /\ op[p].outcome = "uncalled")
    /\ [][\A p \in Procs :
            BeforeAddRecord(p)
                => record_ids_to_root_domain' = record_ids_to_root_domain]_vars

\* a lookup has timed out while the map held an entry
C12_Witness ==
    \E p \in Procs :
        /\ Returned(p, "perform")
        /\ op[p].lookup = "Timeout"
        /\ record_ids_to_root_domain # <<>>

\* thread p stores the entry for value v in this step
Storing(p, v) ==
    /\ pc[p] = "add_record"
    /\ op[p].validation = v
    /\ pc'[p] = "returned"
    /\ op'[p].result = "ok"

\* thread p enters _cleanup in this step
EntersCleanup(p) ==
    /\ nops' = nops + 1
    /\ last_started' = p
    /\ op'[p].kind = "cleanup"

C14_RecordNameHasNoEmptyLabel ==
    \A p \in Procs :
        op[p].kind = "perform" /\ Len(op[p].issued) = 1
            => op[p].issued[1].record
                  = IF op[p].name = <<>> THEN op[p].root_domain
                    ELSE op[p].name \o <<".">> \o op[p].root_domain

\* the lookup gave an answer that is another name than the one asked for
Redirected(p) ==
    /\ op[p].kind = "perform"
    /\ op[p].lookup = "none"
    /\ op[p].canonical # op[p].challenge \o <<".">>

\* C15 as stated: when the challenge name is redirected to a canonical name,
\* the create call names the canonical name, the root domain that is stored
\* is the one of the canonical name, and the _cleanup that follows issues
\* its delete for that root domain, "TXT" and the validation value.
C15_RecordUnderCanonicalName ==
    \A p \in Procs :
        /\ Redirected(p) /\ Len(op[p].issued) = 1
              => /\ op[p].issued[1].record = RStripDots(op[p].canonical)
                 /\ op[p].root_domain = RootDomain(Extract(op[p].canonical))
                 /\ op[p].result = "ok"
                       => record_ids_to_root_domain[op[p].validation][2]
                             = op[p].root_domain
        /\ Returned(p, "cleanup") /\ op[p].follows
           /\ prev[p].lookup = "none" /\ prev[p].result = "ok"
           /\ prev[p].validation = op[p].validation
           /\ prev[p].canonical # prev[p].challenge \o <<".">>
              => op[p].issued
                    = <<[op |-> "remove_record",
                         record |-> RootDomain(Extract(prev[p].canonical)),
                         type |-> "TXT", value |-> op[p].validation]>>

\* a step of thread p inside _perform
PerformStep(p) ==
    /\ pc'[p] # pc[p]
    /\ pc'[p] = "resolve" \/ pc[p] \in {"resolve", "add_record"}

\* C18: when add_record raises, _perform ends in a PluginError and the step
\* leaves the tracking map as it is, as does every step of a _perform other
\* than the one that returns normally: no entry is added for the value and
\* an entry the map holds for it stays as it was.
C18_FailedCreateLeavesMap ==
    /\ [](\A p \in Procs :
            op[p].kind = "perform" /\ op[p].outcome = "raises"
                => /\ pc[p] = "returned"
                   /\ op[p].result = "raised"
                   /\ op[p].exc = PerformException)
    /\ [][\A p \in Procs :
            PerformStep(p) /\ op'[p].result # "ok"
                => record_ids_to_root_domain' = record_ids_to_root_domain]_vars

\* add_record has raised in a _perform for a value whose entry, stored by
\* the _perform before it, is still in the map
C18_Witness ==
    \E p \in Procs :
        /\ Returned(p, "perform")
        /\ op[p].outcome = "raises"
        /\ prev[p].kind = "perform" /\ prev[p].result = "ok"
        /\ prev[p].validation = op[p].validation
        /\ prev[p].root_domain # op[p].root_domain
        /\ record_ids_to_root_domain[op[p].validation]
              = <<prev[p].record_id, prev[p].root_domain>>

\* C19: _cleanup asks the resolver nothing and builds no challenge domain;
\* the record of its delete call is the root domain the map holds for the
\* validation value, which after a successful _perform for that value is
\* the root domain that _perform stored, whatever domain _cleanup is given
\* and whatever the resolver would answer by then.
C19_CleanupUsesStoredRootDomain ==
    \A p \in Procs :
        op[p].kind = "cleanup"
            => /\ op[p].lookup = "unasked"
               /\ op[p].challenge = <<>>
               /\ op[p].canonical = <<>>
               /\ Len(op[p].issued) <= 1
               /\ Len(op[p].issued) = 1
                     => /\ op[p].validation \in DOMAIN record_ids_to_root_domain
                        /\ op[p].issued[1].record
                              = record_ids_to_root_domain[op[p].validation][2]
               /\ op[p].follows /\ prev[p].result = "ok"
                  /\ prev[p].validation = op[p].validation
                  /\ pc[p] = "returned"
                     => /\ Len(op[p].issued) = 1
                        /\ op[p].issued[1].record = prev[p].root_domain

\* a _cleanup given another domain than the _perform before it, one of
\* another root domain, has issued its delete; the _perform had been
\* redirected to a canonical name
C19_Witness ==
    \E p \in Procs :
        /\ Returned(p, "cleanup")
        /\ op[p].follows /\ prev[p].result = "ok"
        /\ prev[p].validation = op[p].validation
        /\ prev[p].domain # op[p].domain
        /\ prev[p].canonical # prev[p].challenge \o <<".">>
        /\ Len(op[p].issued) = 1
        /\ op[p].issued[1].record # RootDomain(Extract(op[p].domain))
        /\ op[p].issued[1].record
              # RootDomain(Extract(ChallengeDomain(op[p].domain)))

\* C16: every Authenticator object reads and writes the one dict of the
\* class: the entry a successful _perform stored through one object is the
\* entry every object of the process finds, objects made afterwards
\* included, and a _cleanup called on any object right after that _perform
\* reads its tuple.
C16_MapSharedByInstances ==
    /\ \A a \in Instances :
          authenticators[a].made => TrackingMap(a) = record_ids_to_root_domain
    /\ \A p \in Procs :
          Returned(p, "perform") /\ op[p].result = "ok"
              => \A a \in Instances :
                    authenticators[a].made
                        => /\ op[p].validation \in DOMAIN TrackingMap(a)
                           /\ TrackingMap(a)[op[p].validation]
                                 = <<op[p].record_id, op[p].root_domain>>
    /\ \A p \in Procs :
          /\ op[p].kind = "cleanup" /\ op[p].follows
          /\ prev[p].result = "ok" /\ prev[p].validation = op[p].validation
          => /\ op[p].exc.cls # "KeyError"
             /\ op[p].record_id = prev[p].record_id
             /\ op[p].root_domain = prev[p].root_domain

\* a _cleanup on the second object has issued the delete for an entry that
\* a _perform on the first object had stored before the second was made
C16_Witness ==
    \E p \in Procs :
        /\ Returned(p, "cleanup") /\ op[p].follows
        /\ prev[p].result = "ok" /\ prev[p].validation = op[p].validation
        /\ prev[p].self = 1 /\ op[p].self = 2
        /\ op[p].validation \in authenticators[2].born_with
        /\ Len(op[p].issued) = 1
        /\ op[p].issued[1].record = prev[p].root_domain

\* C17: with the key option given, _setup_credentials reads no credentials
\* file and succeeds whether or not there is one, and the client of every
\* _perform and _cleanup is made with the key of the option; the key of the
\* credentials file is the client's key only when the option is not given.
C17_KeyOptionOverridesFile ==
    /\ conf.key # ""
          => \A a \in Instances :
                /\ ~authenticators[a].file_read
                /\ authenticators[a].credentials = ""
                /\ authenticators[a].setup # "raised"
    /\ \A p \in Procs :
          op[p].kind = "perform" \/ Len(op[p].issued) = 1
              => op[p].key = IF conf.key # "" THEN conf.key ELSE FileKey
    /\ \A p \in Procs : op[p].key = FileKey => conf.key = ""

\* with the key option given and no credentials file, a _perform and the
\* _cleanup after it have made their clients with the key of the option
C17_Witness ==
    \E p \in Procs :
        /\ conf.key # "" /\ conf.credentials = "absent"
        /\ Returned(p, "cleanup") /\ op[p].follows
        /\ prev[p].result = "ok"
        /\ prev[p].key = conf.key
        /\ Len(op[p].issued) = 1
        /\ op[p].key = conf.key

====
